---- MODULE Spec2Model ----
(***************************************************************************)
(* CalculateSkillMetricsLogic (CalculateSkillMetrics.py): classification   *)
(* of the sequence browser's tracks, traversal of a bounding-box track and *)
(* of a REGION track with gap handling, and the metric table.              *)
(* Three further specifications share these steps or operators: one       *)
(* track alone, the Calculate button clicked again and again               *)
(* (onCalculateButton), and convertPixelsToMM called on its own.           *)
(*                                                                         *)
(* Number representation.  The code computes in binary floating point;     *)
(* the model computes in fixed point:                                      *)
(*   - pixel coordinates and the calibration constants are in 1/1000 pixel *)
(*   - depth (z) and REGION centers are given in whole millimetres         *)
(*   - converted positions and path lengths are in 1/UnitsPerMM mm         *)
(*   - timestamps and usage time are in 1/10 second                        *)
(* Division and square root round towards minus infinity.                  *)
(***************************************************************************)
EXTENDS Integers, Sequences, FiniteSets, TLC

VARIABLES
    synchronizedSequenceNodes, \* the browser's tracks: [name, index, data]
    boundingBoxSequences,      \* self.boundingBoxSequences: <<label, track>>
    roiSequences,              \* self.roiSequences: <<label, track>>
    pc,                        \* position in calculate
    i,                         \* index of the loop calculate is in
    frame,                     \* loop index of the running traversal
    acc,                       \* accumulators of the running traversal
    last,                      \* remembered last positions and timestamp
    valid,                     \* validity verdict of the frame just read
    result,                    \* value returned by the last traversal
    metrics,                   \* the list metrics of calculate
    table,                     \* the display table
    previous,                  \* tracks of the browser of the call before this one
    arguments,                 \* argument lists of the calls of convertPixelsToMM
    positions                  \* values these calls have returned

vars == <<synchronizedSequenceNodes, boundingBoxSequences, roiSequences, pc, i,
          frame, acc, last, valid, result, metrics, table,
          previous, arguments, positions>>

\* what no step of calculate touches
outside == <<previous, arguments, positions>>

-----------------------------------------------------------------------------
(* Bounds of the model *)

\* frames of a single-track input with free timestamps
MaxFrames == 4
\* frames of a single-track input with free frame shapes
MaxShapeFrames == 3
\* frames of each of the two valid runs of a track with one invalid frame between them
MaxRun == 2
\* tracks of a multi-track browser
MaxTracks == 3
\* tracks of a browser of a repeated calculation
MaxCallTracks == 2
\* pixel offsets of a converted point, in focal lengths
MaxShift == 2
\* depth of a converted point, in mm
MaxDepth == 2

\* fixed-point resolution of positions: units per millimetre
UnitsPerMM == 8

-----------------------------------------------------------------------------
(* Calibration defaults of convertPixelsToMM, in 1/1000 pixel *)

PrinciplePointX == 314273
PrinciplePointY == 251183
FocalLength == 592667

\* an unset local is None, a set one is Some(v) and holds Value(o)
None == <<>>
Some(v) == <<v>>
Value(o) == o[1]

-----------------------------------------------------------------------------
(* Text: str.__contains__, str.split(sep)[0], str.upper, float *)

\* pattern in name
Contains(name, pattern) ==
    \E k \in 1..(Len(name) - Len(pattern) + 1) :
        SubSeq(name, k, k + Len(pattern) - 1) = pattern

\* name.split(sep)[0], sep a single character
RECURSIVE SplitFirstFrom(_, _, _)
SplitFirstFrom(name, sep, k) ==
    IF k > Len(name) THEN name
    ELSE IF SubSeq(name, k, k) = sep THEN SubSeq(name, 1, k - 1)
    ELSE SplitFirstFrom(name, sep, k + 1)

SplitFirst(name, sep) == SplitFirstFrom(name, sep, 1)

LowerCase == "abcdefghijklmnopqrstuvwxyz"
UpperCase == "ABCDEFGHIJKLMNOPQRSTUVWXYZ"

UpperChar(c) ==
    IF \E k \in 1..Len(LowerCase) : SubSeq(LowerCase, k, k) = c
    THEN LET k == CHOOSE k \in 1..Len(LowerCase) : SubSeq(LowerCase, k, k) = c
         IN  SubSeq(UpperCase, k, k)
    ELSE c

\* s.upper()
RECURSIVE Upper(_)
Upper(s) ==
    IF Len(s) = 0 THEN ""
    ELSE UpperChar(SubSeq(s, 1, 1)) \o Upper(SubSeq(s, 2, Len(s)))

Digits == "0123456789"

DigitValue(c) == (CHOOSE k \in 1..Len(Digits) : SubSeq(Digits, k, k) = c) - 1

\* value of a run of decimal digits
RECURSIVE Natural(_)
Natural(s) ==
    IF Len(s) = 0 THEN 0
    ELSE 10 * Natural(SubSeq(s, 1, Len(s) - 1)) + DigitValue(SubSeq(s, Len(s), Len(s)))

\* float(indexValue) for an index value written [-]digits.digit, in 1/10 second
Float(indexValue) ==
    LET neg  == SubSeq(indexValue, 1, 1) = "-"
        body == IF neg THEN SubSeq(indexValue, 2, Len(indexValue)) ELSE indexValue
        int  == SplitFirst(body, ".")
        frac == SubSeq(body, Len(int) + 2, Len(body))
        mag  == 10 * Natural(int) + Natural(frac)
    IN  IF neg THEN 0 - mag ELSE mag

-----------------------------------------------------------------------------
(* Geometry *)

\* a power of 2, at least r, whose square is above n
RECURSIVE SqrtAbove(_, _)
SqrtAbove(n, r) == IF r * r > n THEN r ELSE SqrtAbove(n, 2 * r)

\* floor of the square root of n, given lo * lo <= n < hi * hi
RECURSIVE SqrtBetween(_, _, _)
SqrtBetween(n, lo, hi) ==
    IF hi - lo <= 1 THEN lo
    ELSE LET mid == (lo + hi) \div 2
         IN  IF mid * mid <= n THEN SqrtBetween(n, mid, hi) ELSE SqrtBetween(n, lo, mid)

\* floor of the square root
sqrt(n) == SqrtBetween(n, 0, SqrtAbove(n, 1))

\* sum of a sequence of numbers
RECURSIVE sum(_)
sum(s) == IF Len(s) = 0 THEN 0 ELSE Head(s) + sum(Tail(s))

euclideanDistanceSwapped(point1, point2) ==
    sqrt(sum([j \in 1..3 |-> (point2[j] + point1[j]) * (point2[j] + point1[j])]))

euclideanDistance(point1, point2) ==
    sqrt(sum([j \in 1..3 |-> (point2[j] - point1[j]) * (point2[j] - point1[j])]))

\* convertPixelsToMM without the division by the focal length in xMM
convertPixelsToMMUnscaled(xPixels, yPixels, zMM, principlePoint, focalLength) ==
    << (xPixels - principlePoint[1]) * zMM * UnitsPerMM,
       ((yPixels - principlePoint[2]) * zMM * UnitsPerMM) \div focalLength >>

\* convertPixelsToMM: <<xMM, yMM>> in 1/UnitsPerMM mm
convertPixelsToMM(xPixels, yPixels, zMM, principlePoint, focalLength) ==
    << ((xPixels - principlePoint[1]) * zMM * UnitsPerMM) \div focalLength,
       ((yPixels - principlePoint[2]) * zMM * UnitsPerMM) \div focalLength >>

DefaultPrinciplePoint == <<PrinciplePointX, PrinciplePointY>>

\* getCornerPositionsOfBoundingBox: one converted corner per control point
getCornerPositionsOfBoundingBox(markupsNode) ==
    [p \in 1..Len(markupsNode.points) |->
        LET pos == markupsNode.points[p]
            mm  == convertPixelsToMM(pos[1], pos[2], pos[3],
                                     DefaultPrinciplePoint, FocalLength)
        IN  <<mm[1], mm[2], pos[3] * UnitsPerMM>>]

\* the first corner taken for the center
computeCenterAtCorner1(markupsNode) == getCornerPositionsOfBoundingBox(markupsNode)[1]

\* computeCenterOfBoundingBox: component-wise mean of the corners
computeCenterOfBoundingBox(markupsNode) ==
    LET corners == getCornerPositionsOfBoundingBox(markupsNode)
    IN  [j \in 1..3 |->
            sum([p \in 1..Len(corners) |-> corners[p][j]]) \div Len(corners)]

isMarkupsFrameValidAll(markupsNode) ==
    /\ Len(markupsNode.points) > 0
    /\ \A p \in 1..Len(markupsNode.points) : markupsNode.points[p] # <<0, 0, 0>>

\* isMarkupsFrameValid: the loop returns True at the first non-zero point
RECURSIVE MarkupsValidFrom(_, _)
MarkupsValidFrom(markupsNode, p) ==
    IF p > Len(markupsNode.points) THEN FALSE
    ELSE IF markupsNode.points[p] # <<0, 0, 0>> THEN TRUE
    ELSE MarkupsValidFrom(markupsNode, p + 1)

isMarkupsFrameValid(markupsNode) == MarkupsValidFrom(markupsNode, 1)

isROIFrameValid(roiNode) == TRUE

-----------------------------------------------------------------------------
(* Traversal of a bounding-box track: calculateMetricsFromSequence *)

ZeroTotals ==
    [centerPathLength |-> 0, corner1PathLength |-> 0, corner2PathLength |-> 0,
     corner3PathLength |-> 0, corner4PathLength |-> 0, usageTime |-> 0]

NoLast ==
    [lastCenter |-> None, lastCorner1 |-> None, lastCorner2 |-> None,
     lastCorner3 |-> None, lastCorner4 |-> None, lastTimestamp |-> None]

\* locals at the entry of the loop of either traversal
EnterTraversal == [acc |-> ZeroTotals, last |-> NoLast, valid |-> FALSE, raised |-> FALSE]

SkipFrameKeepingLast(st) == [st EXCEPT !.valid = FALSE]

\* an invalid frame that forgets the center and the timestamp only
SkipFrameKeepingCorners(st) ==
    [st EXCEPT !.last.lastCenter = None, !.last.lastTimestamp = None, !.valid = FALSE]

\* the branch taken for an invalid frame: forget the previous frame
SkipFrame(st) == [st EXCEPT !.last = NoLast, !.valid = FALSE]

AccumulatePerPoint(a, l, timestamp, center, corners) ==
    [centerPathLength  |->
         a.centerPathLength + euclideanDistance(Value(l.lastCenter), center),
     corner1PathLength |->
         a.corner1PathLength + euclideanDistance(Value(l.lastCorner1), corners[1]),
     corner2PathLength |->
         a.corner2PathLength + euclideanDistance(Value(l.lastCorner2), corners[2]),
     corner3PathLength |->
         a.corner3PathLength + euclideanDistance(Value(l.lastCorner3), corners[3]),
     corner4PathLength |->
         a.corner4PathLength + euclideanDistance(Value(l.lastCorner4), corners[4]),
     usageTime         |-> a.usageTime + 5 * (timestamp - Value(l.lastTimestamp))]

\* the accumulation of one valid-to-valid transition
Accumulate(a, l, timestamp, center, corners) ==
    [centerPathLength  |->
         a.centerPathLength + euclideanDistance(Value(l.lastCenter), center),
     corner1PathLength |->
         a.corner1PathLength + euclideanDistance(Value(l.lastCorner1), corners[1]),
     corner2PathLength |->
         a.corner2PathLength + euclideanDistance(Value(l.lastCorner2), corners[2]),
     corner3PathLength |->
         a.corner3PathLength + euclideanDistance(Value(l.lastCorner3), corners[3]),
     corner4PathLength |->
         a.corner4PathLength + euclideanDistance(Value(l.lastCorner4), corners[4]),
     usageTime         |-> a.usageTime + (timestamp - Value(l.lastTimestamp))]

\* one iteration of the loop over the frames of a bounding-box track
SeqIteration(st, indexValue, markupsNode) ==
    IF ~isMarkupsFrameValid(markupsNode) THEN SkipFrame(st)
    ELSE IF Len(markupsNode.points) # 4
    THEN \* corner1, corner2, corner3, corner4 = corners raises ValueError
         [st EXCEPT !.valid = TRUE, !.raised = TRUE]
    ELSE LET timestamp == Float(indexValue)
             center    == computeCenterOfBoundingBox(markupsNode)
             corners   == getCornerPositionsOfBoundingBox(markupsNode)
         IN  [acc    |-> IF st.last.lastCenter # None /\ st.last.lastTimestamp # None
                         THEN Accumulate(st.acc, st.last, timestamp, center, corners)
                         ELSE st.acc,
              last   |-> [lastCenter  |-> Some(center),
                          lastCorner1 |-> Some(corners[1]),
                          lastCorner2 |-> Some(corners[2]),
                          lastCorner3 |-> Some(corners[3]),
                          lastCorner4 |-> Some(corners[4]),
                          lastTimestamp |-> Some(timestamp)],
              valid  |-> TRUE,
              raised |-> FALSE]

totalCornerPathLengthTwice(a) ==
    a.corner1PathLength + a.corner2PathLength + a.corner3PathLength
        + a.corner4PathLength + a.corner4PathLength

totalCornerPathLength(a) ==
    a.corner1PathLength + a.corner2PathLength + a.corner3PathLength + a.corner4PathLength

\* the tuple calculateMetricsFromSequence returns
SeqReturnValue(a) ==
    <<a.centerPathLength, totalCornerPathLength(a), a.corner1PathLength,
      a.corner2PathLength, a.corner3PathLength, a.corner4PathLength, a.usageTime>>

\* the loop from frame f on, from the locals st
RECURSIVE SeqLoop(_, _, _)
SeqLoop(sequence, f, st) ==
    IF st.raised \/ f > Len(sequence.data) THEN st
    ELSE SeqLoop(sequence, f + 1, SeqIteration(st, sequence.index[f], sequence.data[f]))

\* nothing returned: no call yet, or the call raised
NoResult == <<>>

\* calculateMetricsFromSequence as a function of the track
\* (the locals at the end of the loop are bound as an element of a set, so
\* that the loop is evaluated once)
calculateMetricsFromSequence(sequence) ==
    CHOOSE r \in {IF st.raised THEN NoResult ELSE SeqReturnValue(st.acc) :
                     st \in {SeqLoop(sequence, 1, EnterTraversal)}} : TRUE

-----------------------------------------------------------------------------
(* Traversal of a REGION track: calculateMetricsFromROISequence *)

\* truth value of a timestamp used as a condition
TruthyNumber(o) == o # None /\ Value(o) # 0

\* truth value of a position list used as a condition
TruthyList(o) == o # None /\ Len(Value(o)) > 0

\* roiNode.GetCenter(center)
GetCenter(roiNode) == [j \in 1..3 |-> roiNode.center[j] * UnitsPerMM]

\* one iteration of the loop over the frames of a REGION track
ROIIteration(st, indexValue, roiNode) ==
    IF ~isROIFrameValid(roiNode) THEN SkipFrame(st)
    ELSE LET timestamp == Float(indexValue)
             center    == GetCenter(roiNode)
         IN  [acc    |-> IF TruthyList(st.last.lastCenter) /\ TruthyNumber(st.last.lastTimestamp)
                         THEN [st.acc EXCEPT
                                 !.centerPathLength =
                                     @ + euclideanDistance(Value(st.last.lastCenter), center),
                                 !.usageTime = @ + (timestamp - Value(st.last.lastTimestamp))]
                         ELSE st.acc,
              last   |-> [st.last EXCEPT !.lastCenter = Some(center),
                                          !.lastTimestamp = Some(timestamp)],
              valid  |-> TRUE,
              raised |-> FALSE]

\* the tuple calculateMetricsFromROISequence returns
ROIReturnValue(a) == <<a.centerPathLength, a.usageTime>>

RECURSIVE ROILoop(_, _, _)
ROILoop(sequence, f, st) ==
    IF f > Len(sequence.data) THEN st
    ELSE ROILoop(sequence, f + 1, ROIIteration(st, sequence.index[f], sequence.data[f]))

\* calculateMetricsFromROISequence as a function of the track
calculateMetricsFromROISequence(sequence) ==
    ROIReturnValue(ROILoop(sequence, 1, EnterTraversal).acc)

-----------------------------------------------------------------------------
(* Text of a number: str(x) and str(round(x, 2)) *)

\* decimal digits of a natural number
RECURSIVE NaturalStr(_)
NaturalStr(n) ==
    IF n < 10 THEN SubSeq(Digits, n + 1, n + 1)
    ELSE NaturalStr(n \div 10) \o SubSeq(Digits, (n % 10) + 1, (n % 10) + 1)

\* fraction digits of f, of the given width, without trailing zeros but at least one
RECURSIVE FractionStr(_, _)
FractionStr(f, width) ==
    IF width = 1 THEN NaturalStr(f)
    ELSE IF f % 10 = 0 THEN FractionStr(f \div 10, width - 1)
    ELSE FractionStr(f \div 10, width - 1) \o NaturalStr(f % 10)

Power10(places) == IF places = 2 THEN 100 ELSE 1000

\* str of the float n / 10^places
DecimalStr(n, places) ==
    LET mag == IF n < 0 THEN 0 - n ELSE n
    IN  (IF n < 0 THEN "-" ELSE "")
            \o NaturalStr(mag \div Power10(places)) \o "."
            \o FractionStr(mag % Power10(places), places)

\* a / b rounded to the nearest integer, ties to even (b > 0)
RoundHalfEven(a, b) ==
    LET q == a \div b
        r == a % b
    IN  IF 2 * r < b THEN q
        ELSE IF 2 * r > b THEN q + 1
        ELSE IF q % 2 = 0 THEN q ELSE q + 1

\* str(round(x, 2)) of a dictionary value x, the float v / units
StrRound2(x, units) == DecimalStr(RoundHalfEven(x[2] * 100, units), 2)

\* values held by a metrics dictionary: a float (in fixed point) or a text
PyFloat(v) == <<"float", v>>
PyStr(text) == <<"str", text>>

\* str(x) of a dictionary value x: the text itself, or the float v / units in full
Str(x, units) ==
    IF x[1] = "str" THEN x[2] ELSE DecimalStr((x[2] * 1000) \div units, 3)

UnitsPerSecond == 10

-----------------------------------------------------------------------------
(* calculate *)

IsBoundingBoxNameLoose(name) == Contains(name, "equence")

IsBoundingBoxName(name) == Contains(name, "Markups Sequence")

IsROINameLoose(name) == Contains(name, "ROI")

IsROIName(name) == Contains(name, "ROI_SEQUENCE")

BoundingBoxClassName(name) == Upper(SplitFirst(name, " "))

ROIClassNameBySpace(name) == Upper(SplitFirst(name, " "))

ROIClassName(name) == Upper(SplitFirst(name, "_"))

rowLabels ==
    << "Center Path Length (mm)", "Total Markup Path Length (mm)",
       "Markup 1 Path Length (mm)", "Markup 2 Path Length (mm)",
       "Markup 3 Path Length (mm)", "Markup 4 Path Length (mm)",
       "Usage Time (s)" >>

\* the table widget after setup: empty and hidden
HiddenTable == [rowLabels |-> <<>>, columnLabels |-> <<>>, items |-> <<>>, visible |-> FALSE]

\* the dictionary built for bounding-box class k from the returned tuple
BoundingBoxMetrics(className, r) ==
    [CENTER_PATH_LENGTH |-> PyFloat(r[1]), TOTAL_CORNER_PATH_LENGTH |-> PyFloat(r[2]),
     CORNER_1_PATH_LENGTH |-> PyFloat(r[3]), CORNER_2_PATH_LENGTH |-> PyFloat(r[4]),
     CORNER_3_PATH_LENGTH |-> PyFloat(r[5]), CORNER_4_PATH_LENGTH |-> PyFloat(r[6]),
     USAGE_TIME |-> PyFloat(r[7]), CLASS_NAME |-> className]

\* the dictionary built for REGION class k from the returned tuple
ROIMetrics(className, r) ==
    [CENTER_PATH_LENGTH |-> PyFloat(r[1]), TOTAL_CORNER_PATH_LENGTH |-> PyStr("N/A"),
     CORNER_1_PATH_LENGTH |-> PyStr("N/A"), CORNER_2_PATH_LENGTH |-> PyStr("N/A"),
     CORNER_3_PATH_LENGTH |-> PyStr("N/A"), CORNER_4_PATH_LENGTH |-> PyStr("N/A"),
     USAGE_TIME |-> PyFloat(r[2]), CLASS_NAME |-> className \o "_ROI"]

\* the seven cells of the column of one dictionary
Column(m) ==
    IF Contains(m.CLASS_NAME, "_ROI")
    THEN << StrRound2(m.CENTER_PATH_LENGTH, UnitsPerMM),
            Str(m.TOTAL_CORNER_PATH_LENGTH, UnitsPerMM),
            Str(m.CORNER_1_PATH_LENGTH, UnitsPerMM),
            Str(m.CORNER_2_PATH_LENGTH, UnitsPerMM),
            Str(m.CORNER_3_PATH_LENGTH, UnitsPerMM),
            Str(m.CORNER_4_PATH_LENGTH, UnitsPerMM),
            StrRound2(m.USAGE_TIME, UnitsPerSecond) >>
    ELSE << StrRound2(m.CENTER_PATH_LENGTH, UnitsPerMM),
            StrRound2(m.TOTAL_CORNER_PATH_LENGTH, UnitsPerMM),
            StrRound2(m.CORNER_1_PATH_LENGTH, UnitsPerMM),
            StrRound2(m.CORNER_2_PATH_LENGTH, UnitsPerMM),
            StrRound2(m.CORNER_3_PATH_LENGTH, UnitsPerMM),
            StrRound2(m.CORNER_4_PATH_LENGTH, UnitsPerMM),
            StrRound2(m.USAGE_TIME, UnitsPerSecond) >>

numberOfNodes == Len(synchronizedSequenceNodes)

\* the track the running traversal reads
CurrentSequence ==
    IF pc = "calculateMetricsFromSequence"
    THEN synchronizedSequenceNodes[boundingBoxSequences[i][2]]
    ELSE synchronizedSequenceNodes[roiSequences[i][2]]

BoundingBoxLoopDone ==
    \/ pc = "roi"
    \/ pc = "boundingBox" /\ i > Len(boundingBoxSequences)

ROIIndex == IF pc = "roi" THEN i ELSE 1

\* calculate with table.clear() moved to its entry
CalculateClearingTable ==
    /\ pc = "idle"
    /\ boundingBoxSequences' = <<>>
    /\ roiSequences' = <<>>
    /\ metrics' = <<>>
    /\ i' = 1
    /\ pc' = IF numberOfNodes = 0 THEN "boundingBox" ELSE "classify"
    /\ table' = [table EXCEPT !.rowLabels = <<>>, !.columnLabels = <<>>, !.items = <<>>]
    /\ UNCHANGED <<outside, synchronizedSequenceNodes, frame, acc, last, valid, result>>

\* entry of calculate: the lists are emptied and the tracks obtained
\* (metrics, a local of calculate, is empty until its loops fill it)
Calculate ==
    /\ pc = "idle"
    /\ boundingBoxSequences' = <<>>
    /\ roiSequences' = <<>>
    /\ metrics' = <<>>
    /\ i' = 1
    /\ pc' = IF numberOfNodes = 0 THEN "boundingBox" ELSE "classify"
    /\ UNCHANGED <<outside, synchronizedSequenceNodes, frame, acc, last, valid, result, table>>

\* one iteration of the loop over the synchronized sequence nodes
Classify ==
    /\ pc = "classify"
    /\ i <= numberOfNodes
    /\ LET name == synchronizedSequenceNodes[i].name
       IN  /\ boundingBoxSequences' =
                 IF IsBoundingBoxName(name)
                 THEN Append(boundingBoxSequences, <<BoundingBoxClassName(name), i>>)
                 ELSE boundingBoxSequences
           /\ roiSequences' =
                 IF IsROIName(name)
                 THEN Append(roiSequences, <<ROIClassName(name), i>>)
                 ELSE roiSequences
    /\ i' = IF i = numberOfNodes THEN 1 ELSE i + 1
    /\ pc' = IF i = numberOfNodes THEN "boundingBox" ELSE "classify"
    /\ UNCHANGED <<outside, synchronizedSequenceNodes, frame, acc, last, valid, result,
                   metrics, table>>

\* calculate calls calculateMetricsFromSequence for bounding-box class i
SeqEnter ==
    /\ pc = "boundingBox"
    /\ i <= Len(boundingBoxSequences)
    /\ pc' = "calculateMetricsFromSequence"
    /\ frame' = 1
    /\ acc' = EnterTraversal.acc
    /\ last' = EnterTraversal.last
    /\ valid' = EnterTraversal.valid
    /\ UNCHANGED <<outside, synchronizedSequenceNodes, boundingBoxSequences, roiSequences,
                   i, result, metrics, table>>

\* one iteration of the loop of calculateMetricsFromSequence
SeqFrame ==
    /\ pc = "calculateMetricsFromSequence"
    /\ frame <= Len(CurrentSequence.data)
    /\ \E st \in {SeqIteration([acc |-> acc, last |-> last, valid |-> valid,
                                  raised |-> FALSE],
                                 CurrentSequence.index[frame],
                                 CurrentSequence.data[frame])} :
           /\ acc' = st.acc
           /\ last' = st.last
           /\ valid' = st.valid
           /\ pc' = IF st.raised THEN "raised" ELSE pc
    /\ frame' = frame + 1
    /\ UNCHANGED <<outside, synchronizedSequenceNodes, boundingBoxSequences, roiSequences,
                   i, result, metrics, table>>

\* calculateMetricsFromSequence returns and calculate stores the dictionary
SeqReturn ==
    /\ pc = "calculateMetricsFromSequence"
    /\ frame > Len(CurrentSequence.data)
    /\ result' = SeqReturnValue(acc)
    /\ metrics' = Append(metrics,
                         BoundingBoxMetrics(boundingBoxSequences[i][1], SeqReturnValue(acc)))
    /\ i' = i + 1
    /\ pc' = "boundingBox"
    /\ UNCHANGED <<outside, synchronizedSequenceNodes, boundingBoxSequences, roiSequences,
                   frame, acc, last, valid, table>>

\* calculate calls calculateMetricsFromROISequence for REGION class i
ROIEnter ==
    /\ BoundingBoxLoopDone
    /\ ROIIndex <= Len(roiSequences)
    /\ i' = ROIIndex
    /\ pc' = "calculateMetricsFromROISequence"
    /\ frame' = 1
    /\ acc' = EnterTraversal.acc
    /\ last' = EnterTraversal.last
    /\ valid' = EnterTraversal.valid
    /\ UNCHANGED <<outside, synchronizedSequenceNodes, boundingBoxSequences, roiSequences,
                   result, metrics, table>>

\* one iteration of the loop of calculateMetricsFromROISequence
ROIFrame ==
    /\ pc = "calculateMetricsFromROISequence"
    /\ frame <= Len(CurrentSequence.data)
    /\ LET st == ROIIteration([acc |-> acc, last |-> last, valid |-> valid,
                               raised |-> FALSE],
                              CurrentSequence.index[frame], CurrentSequence.data[frame])
       IN  /\ acc' = st.acc
           /\ last' = st.last
           /\ valid' = st.valid
    /\ frame' = frame + 1
    /\ UNCHANGED <<outside, synchronizedSequenceNodes, boundingBoxSequences, roiSequences,
                   pc, i, result, metrics, table>>

\* calculateMetricsFromROISequence returns and calculate stores the dictionary
ROIReturn ==
    /\ pc = "calculateMetricsFromROISequence"
    /\ frame > Len(CurrentSequence.data)
    /\ result' = ROIReturnValue(acc)
    /\ metrics' = Append(metrics, ROIMetrics(roiSequences[i][1], ROIReturnValue(acc)))
    /\ i' = i + 1
    /\ pc' = "roi"
    /\ UNCHANGED <<outside, synchronizedSequenceNodes, boundingBoxSequences, roiSequences,
                   frame, acc, last, valid, table>>

\* the columns t has beyond the first n
Beyond(t, n) == IF Len(t) > n THEN SubSeq(t, n + 1, Len(t)) ELSE <<>>

\* the table is labelled, filled and shown without being cleared and sized
FillTableKeepingColumns ==
    /\ BoundingBoxLoopDone
    /\ ROIIndex > Len(roiSequences)
    /\ table' = [rowLabels    |-> rowLabels,
                 columnLabels |-> [c \in 1..Len(metrics) |-> metrics[c].CLASS_NAME]
                                     \o Beyond(table.columnLabels, Len(metrics)),
                 items        |-> [c \in 1..Len(metrics) |-> Column(metrics[c])]
                                     \o Beyond(table.items, Len(metrics)),
                 visible      |-> TRUE]
    /\ pc' = "done"
    /\ UNCHANGED <<outside, synchronizedSequenceNodes, boundingBoxSequences, roiSequences,
                   i, frame, acc, last, valid, result, metrics>>

\* the table is cleared, sized, labelled, filled and shown
FillTable ==
    /\ BoundingBoxLoopDone
    /\ ROIIndex > Len(roiSequences)
    /\ table' = [rowLabels    |-> rowLabels,
                 columnLabels |-> [c \in 1..Len(metrics) |-> metrics[c].CLASS_NAME],
                 items        |-> [c \in 1..Len(metrics) |-> Column(metrics[c])],
                 visible      |-> TRUE]
    /\ pc' = "done"
    /\ UNCHANGED <<outside, synchronizedSequenceNodes, boundingBoxSequences, roiSequences,
                   i, frame, acc, last, valid, result, metrics>>

\* the exception of a traversal leaves calculate and reaches the error
\* boundary of onCalculateButton, which reports it
tryWithErrorDisplay ==
    /\ pc = "raised"
    /\ pc' = "failed"
    /\ UNCHANGED <<outside, synchronizedSequenceNodes, boundingBoxSequences, roiSequences,
                   i, frame, acc, last, valid, result, metrics, table>>

Next ==
    \/ Calculate
    \/ Classify
    \/ SeqEnter
    \/ SeqFrame
    \/ SeqReturn
    \/ ROIEnter
    \/ ROIFrame
    \/ ROIReturn
    \/ FillTable
    \/ tryWithErrorDisplay

-----------------------------------------------------------------------------
(* Inputs *)

\* raw control point whose converted position is (kx * z, ky * z, z) mm
Pixel(kx, ky, z) ==
    <<PrinciplePointX + kx * FocalLength, PrinciplePointY + ky * FocalLength, z>>

Origin == <<0, 0, 0>>

MarkupsNode(points) == [points |-> points, center |-> Origin]
ROINode(center) == [points |-> <<>>, center |-> center]

\* tool out of view: four control points at (0,0,0)
FrameZ == MarkupsNode(<<Origin, Origin, Origin, Origin>>)
\* a 10 mm square at depth 5 mm
FrameA == MarkupsNode(<<Pixel(0, 0, 5), Pixel(2, 0, 5), Pixel(0, 2, 5), Pixel(2, 2, 5)>>)
\* FrameA moved by 5 mm in x
FrameB == MarkupsNode(<<Pixel(1, 0, 5), Pixel(3, 0, 5), Pixel(1, 2, 5), Pixel(3, 2, 5)>>)
\* FrameA with corner 3 moved by 5 mm in y and corner 4 by 5 mm in x
FrameE == MarkupsNode(<<Pixel(0, 0, 5), Pixel(2, 0, 5), Pixel(0, 3, 5), Pixel(3, 2, 5)>>)
\* FrameA with corner 4 moved by 5 mm in x and 10 mm in y
FrameF == MarkupsNode(<<Pixel(0, 0, 5), Pixel(2, 0, 5), Pixel(0, 2, 5), Pixel(3, 4, 5)>>)
\* only the fourth point is not (0,0,0), and only in x
FrameD == MarkupsNode(<<Origin, Origin, Origin, <<1000, 0, 0>> >>)
\* three points, five points, no point, three points at (0,0,0)
Frame3 == MarkupsNode(<<Pixel(0, 0, 5), Pixel(2, 0, 5), Pixel(0, 2, 5)>>)
Frame5 == MarkupsNode(<<Pixel(0, 0, 5), Pixel(2, 0, 5), Pixel(0, 2, 5), Pixel(2, 2, 5),
                        Pixel(1, 1, 5)>>)
Frame0 == MarkupsNode(<< >>)
Frame3Z == MarkupsNode(<<Origin, Origin, Origin>>)

TimedFrames == {FrameZ, FrameA, FrameB}
ValidFrames == {FrameA, FrameB}
ShapeFrames == {FrameZ, FrameA, FrameB, FrameE, FrameD, Frame3, Frame5, Frame0, Frame3Z}
ROIFrames == {ROINode(Origin), ROINode(<<3, 4, 0>>)}

\* index values a frame may carry: 0 s and 1.5 s
IndexValues == {"0.0", "1.5"}
\* index values of a recording sampled in order
IncreasingIndex == <<"0.0", "2.0", "3.5", "4.0", "5.5", "6.0", "7.5", "8.0">>

Sequence(name, index, data) == [name |-> name, index |-> index, data |-> data]

\* a track of the given name whose frames are the <<index value, node>> pairs of t
TimedTrack(name, t) ==
    Sequence(name, [f \in DOMAIN t |-> t[f][1]], [f \in DOMAIN t |-> t[f][2]])

\* a track of the given name and nodes, sampled in order
SampledTrack(name, data) == Sequence(name, SubSeq(IncreasingIndex, 1, Len(data)), data)

\* the tracks a browser of several tracks is made of, each of two frames
BrowserTracks ==
    << SampledTrack("NEEDLE Markups Sequence", <<FrameA, FrameB>>),
       SampledTrack("NEEDLE Markups Sequence", <<FrameA, Frame3>>),
       SampledTrack("probe Markups Sequence", <<FrameA, FrameE>>),
       SampledTrack("LIVER_ROI Markups Sequence", <<FrameA, FrameF>>),
       SampledTrack("TUMOR_ROI_SEQUENCE", <<ROINode(Origin), ROINode(<<3, 4, 0>>)>>),
       SampledTrack("CYST_ROI_SEQUENCE Markups Sequence",
                    << [points |-> FrameA.points, center |-> Origin],
                       [points |-> FrameB.points, center |-> <<3, 4, 0>>] >>),
       SampledTrack("Needle markups sequence", <<FrameA, FrameB>>),
       SampledTrack("Image_Image", << >>) >>

TypeStart ==
    /\ boundingBoxSequences = <<>>
    /\ roiSequences = <<>>
    /\ pc = "idle"
    /\ i = 1
    /\ frame = 1
    /\ acc = ZeroTotals
    /\ last = NoLast
    /\ valid = FALSE
    /\ result = NoResult
    /\ metrics = <<>>
    /\ table = HiddenTable
    /\ previous = None

\* no call of convertPixelsToMM other than those of the traversals
NoConversion ==
    /\ arguments = <<>>
    /\ positions = <<>>

\* a browser of up to MaxTracks tracks
Init ==
    /\ \E n \in 0..MaxTracks : \E c \in [1..n -> DOMAIN BrowserTracks] :
          synchronizedSequenceNodes = [k \in 1..n |-> BrowserTracks[c[k]]]
    /\ TypeStart
    /\ NoConversion

\* a browser of one track: a bounding-box or a REGION track with free timestamps,
\* a bounding-box track with free frame shapes, or a bounding-box track made of
\* two runs of valid frames with one invalid frame between them
InitTrack ==
    /\ \/ \E n \in 0..MaxFrames : \E t \in [1..n -> IndexValues \X TimedFrames] :
             synchronizedSequenceNodes = <<TimedTrack("NEEDLE Markups Sequence", t)>>
       \/ \E n \in 0..MaxFrames : \E t \in [1..n -> IndexValues \X ROIFrames] :
             synchronizedSequenceNodes = <<TimedTrack("TUMOR_ROI_SEQUENCE", t)>>
       \/ \E n \in 0..MaxShapeFrames : \E d \in [1..n -> ShapeFrames] :
             synchronizedSequenceNodes = <<SampledTrack("NEEDLE Markups Sequence", d)>>
       \/ \E n1, n2 \in 1..MaxRun :
             \E r1 \in [1..n1 -> IndexValues \X ValidFrames],
                z \in IndexValues \X {FrameZ},
                r2 \in [1..n2 -> IndexValues \X ValidFrames] :
                synchronizedSequenceNodes =
                    <<TimedTrack("NEEDLE Markups Sequence", r1 \o <<z>> \o r2)>>
    /\ TypeStart
    /\ NoConversion

Spec == Init /\ [][Next]_vars

SpecTrack == InitTrack /\ [][Next]_vars

-----------------------------------------------------------------------------
(* Repeated calculation: the Calculate button is clicked again *)

\* the tracks of BrowserTracks a browser of a repeated calculation is made of:
\* a bounding-box track, a bounding-box track whose traversal raises, and a
\* REGION track
CallTracks == {1, 2, 5}

\* onCalculateButton has returned (after calculate returned, or after the error
\* was reported); the button is clicked again, for the same or another browser,
\* on the same logic object and table; the locals of the finished call are gone
onCalculateButton ==
    /\ pc \in {"done", "failed"}
    /\ \E n \in 0..MaxCallTracks : \E c \in [1..n -> CallTracks] :
          synchronizedSequenceNodes' = [k \in 1..n |-> BrowserTracks[c[k]]]
    /\ previous' = Some(synchronizedSequenceNodes)
    /\ pc' = "idle"
    /\ i' = 1
    /\ frame' = 1
    /\ acc' = ZeroTotals
    /\ last' = NoLast
    /\ valid' = FALSE
    /\ result' = NoResult
    /\ metrics' = <<>>
    /\ UNCHANGED <<boundingBoxSequences, roiSequences, table, arguments, positions>>

InitCalls ==
    /\ \E n \in 0..MaxCallTracks : \E c \in [1..n -> CallTracks] :
          synchronizedSequenceNodes = [k \in 1..n |-> BrowserTracks[c[k]]]
    /\ TypeStart
    /\ NoConversion

NextCalls ==
    \/ Next
    \/ onCalculateButton

SpecCalls == InitCalls /\ [][NextCalls]_vars

-----------------------------------------------------------------------------
(* Calls of convertPixelsToMM on its own *)

\* the argument lists of three calls with the same yPixels (but for the third),
\* zMM, principlePoint and focalLength: xPixels is x1 + x2, x2 and x1
ConversionCalls(x1, x2, yPixels, zMM, principlePoint, focalLength) ==
    << <<x1 + x2, yPixels, zMM, principlePoint, focalLength>>,
       <<x2, yPixels, zMM, principlePoint, focalLength>>,
       <<x1, 0, zMM, principlePoint, focalLength>> >>

\* pixel coordinates are chosen so that the quotients of the conversion are
\* whole numbers of 1/UnitsPerMM mm
InitConvert ==
    /\ \E k1 \in (-1)..MaxShift, k2 \in 0..MaxShift, ky \in 0..MaxShift,
          zMM \in 0..MaxDepth, principlePoint \in {DefaultPrinciplePoint, <<0, 0>>} :
          arguments = ConversionCalls(k1 * FocalLength,
                                      principlePoint[1] + k2 * FocalLength,
                                      principlePoint[2] + ky * FocalLength,
                                      zMM, principlePoint, FocalLength)
    /\ positions = <<>>
    /\ synchronizedSequenceNodes = <<>>
    /\ TypeStart

\* the next call of convertPixelsToMM returns
CallConvertPixelsToMM ==
    /\ Len(positions) < Len(arguments)
    /\ LET a == arguments[Len(positions) + 1]
       IN  positions' = Append(positions, convertPixelsToMM(a[1], a[2], a[3], a[4], a[5]))
    /\ UNCHANGED <<arguments, previous, synchronizedSequenceNodes, boundingBoxSequences,
                   roiSequences, pc, i, frame, acc, last, valid, result, metrics, table>>

NextConvert == CallConvertPixelsToMM

SpecConvert == InitConvert /\ [][NextConvert]_vars

-----------------------------------------------------------------------------
(* Vocabulary of the properties *)

\* every control point of the node is (0,0,0)
AllZero(node) == \A p \in DOMAIN node.points : node.points[p] = Origin

\* frames a..b of a track, as a track
SubTrack(t, a, b) == Sequence(t.name, SubSeq(t.index, a, b), SubSeq(t.data, a, b))

\* timestamp of frame f of a track
Timestamp(t, f) == Float(t.index[f])

NonDecreasing(t) ==
    \A f, g \in DOMAIN t.data : f < g => Timestamp(t, f) <= Timestamp(t, g)

\* calculateMetricsFromSequence has just returned to calculate
SeqReturned == pc = "boundingBox" /\ i > 1
SeqReturnedTrack == synchronizedSequenceNodes[boundingBoxSequences[i - 1][2]]

\* calculateMetricsFromROISequence has just returned to calculate
ROIReturned == pc = "roi" /\ i > 1
ROIReturnedTrack == synchronizedSequenceNodes[roiSequences[i - 1][2]]

\* positions of the tuple of calculateMetricsFromSequence: the five path lengths
\* and usageTime
Additive == {1, 3, 4, 5, 6, 7}

-----------------------------------------------------------------------------
\* C1 (gap reset): when a bounding-box track is a run R1 of valid frames, one
\* all-zero frame, and a run R2 of valid frames, each of the five path lengths
\* and usageTime returned for the track is the value returned for R1 alone
\* plus the value returned for R2 alone.
C1_GapReset ==
    SeqReturned =>
        LET t == SeqReturnedTrack
            n == Len(t.data)
        IN  \A g \in 2..(n - 1) :
                (/\ AllZero(t.data[g])
                 /\ \A f \in (1..n) \ {g} : ~AllZero(t.data[f]))
                => \A r1 \in {calculateMetricsFromSequence(SubTrack(t, 1, g - 1))},
                      r2 \in {calculateMetricsFromSequence(SubTrack(t, g + 1, n))} :
                      \A k \in Additive : result[k] = r1[k] + r2[k]

\* both runs have path length and usage time of their own, and the frames on
\* the two sides of the gap differ in position and in time
C1_Witness ==
    /\ SeqReturned
    /\ LET t == SeqReturnedTrack
       IN  /\ Len(t.data) = 5
           /\ AllZero(t.data[3])
           /\ \A f \in {1, 2, 4, 5} : ~AllZero(t.data[f])
           /\ t.data[2] # t.data[4]
           /\ Timestamp(t, 2) # Timestamp(t, 4)
           /\ calculateMetricsFromSequence(SubTrack(t, 1, 2))[1] > 0
           /\ calculateMetricsFromSequence(SubTrack(t, 4, 5))[1] > 0
           /\ calculateMetricsFromSequence(SubTrack(t, 1, 2))[7] # 0
           /\ calculateMetricsFromSequence(SubTrack(t, 4, 5))[7] # 0

-----------------------------------------------------------------------------
\* distance between the centers of frames f and f + 1 of a REGION track
ROIStepDistance(t, f) ==
    euclideanDistance(GetCenter(t.data[f]), GetCenter(t.data[f + 1]))

\* C2: for a REGION track of at least 2 frames, centerPathLength is the sum of
\* the distances between consecutive frames and usageTime the sum of the
\* timestamp differences between consecutive frames, whatever the timestamps
\* (a first timestamp of 0 included) and the centers ((0,0,0) included).
C2_ROISums ==
    ROIReturned =>
        LET t == ROIReturnedTrack
            n == Len(t.data)
        IN  n >= 2 =>
              /\ result[1] = sum([f \in 1..(n - 1) |-> ROIStepDistance(t, f)])
              /\ result[2] = sum([f \in 1..(n - 1) |->
                                     Timestamp(t, f + 1) - Timestamp(t, f)])

-----------------------------------------------------------------------------
\* frame f of t ends a maximal run of valid frames
EndsRun(t, f) ==
    /\ ~AllZero(t.data[f])
    /\ f = Len(t.data) \/ AllZero(t.data[f + 1])

\* first frame of the maximal run of valid frames that holds frame f
RunStart(t, f) ==
    CHOOSE g \in 1..f :
        /\ \A h \in g..f : ~AllZero(t.data[h])
        /\ g = 1 \/ AllZero(t.data[g - 1])

\* C3: the usageTime returned for a bounding-box track is the sum, over the
\* maximal runs of valid frames, of the last timestamp of the run minus its
\* first timestamp; nothing guards a repeated or decreasing timestamp.
C3_UsageTimePerRun ==
    SeqReturned =>
        LET t == SeqReturnedTrack
        IN  result[7] = sum([f \in DOMAIN t.data |->
                                IF EndsRun(t, f)
                                THEN Timestamp(t, f) - Timestamp(t, RunStart(t, f))
                                ELSE 0])

\* two runs, one of them with a decreasing timestamp, and a negative total
C3_Witness ==
    /\ SeqReturned
    /\ LET t == SeqReturnedTrack
       IN  /\ \E f \in DOMAIN t.data : AllZero(t.data[f]) /\ 1 < f /\ f < Len(t.data)
           /\ \E f \in DOMAIN t.data :
                 /\ f > 1
                 /\ ~AllZero(t.data[f]) /\ ~AllZero(t.data[f - 1])
                 /\ Timestamp(t, f) < Timestamp(t, f - 1)
           /\ \E f \in DOMAIN t.data :
                 /\ f > 1
                 /\ ~AllZero(t.data[f]) /\ ~AllZero(t.data[f - 1])
                 /\ Timestamp(t, f) = Timestamp(t, f - 1)
    /\ result[7] < 0

-----------------------------------------------------------------------------
\* no two consecutive frames of t are both valid
NoValidPair(t) ==
    \A f \in DOMAIN t.data :
        f > 1 => AllZero(t.data[f]) \/ AllZero(t.data[f - 1])

\* C4: a bounding-box track in which no valid frame follows a valid frame (no
\* frame, no valid frame, one valid frame, or valid frames always separated by
\* an invalid one) gives 0 for the seven metrics, and a REGION track of 0 or 1
\* frames gives 0 for its two metrics.
C4_NoPairNoMetric ==
    /\ SeqReturned /\ NoValidPair(SeqReturnedTrack)
          => result = <<0, 0, 0, 0, 0, 0, 0>>
    /\ ROIReturned /\ Len(ROIReturnedTrack.data) <= 1
          => result = <<0, 0>>

\* valid frames at different positions and times, separated by an invalid frame
C4_Witness ==
    /\ SeqReturned
    /\ LET t == SeqReturnedTrack
       IN  /\ NoValidPair(t)
           /\ Len(t.data) >= 3
           /\ ~AllZero(t.data[1]) /\ AllZero(t.data[2]) /\ ~AllZero(t.data[3])
           /\ t.data[1] # t.data[3]
           /\ Timestamp(t, 1) # Timestamp(t, 3)

-----------------------------------------------------------------------------
\* the frame the traversal of a bounding-box track has just read
SeqFrameRead == pc = "calculateMetricsFromSequence" /\ frame > 1
FrameRead == CurrentSequence.data[frame - 1]

\* C5: a frame of 4 control points is found invalid if and only if all 4 points
\* are (0,0,0) before conversion.
C5_InvalidIffAllZero ==
    SeqFrameRead /\ Len(FrameRead.points) = 4
        => (valid = FALSE <=> \A p \in 1..4 : FrameRead.points[p] = <<0, 0, 0>>)

\* a frame found valid with a single non-zero component in a single point
C5_Witness ==
    /\ SeqFrameRead
    /\ Len(FrameRead.points) = 4
    /\ valid = TRUE
    /\ Cardinality({p \in 1..4 : FrameRead.points[p] # <<0, 0, 0>>}) = 1
    /\ \E p \in 1..4 :
          Cardinality({j \in 1..3 : FrameRead.points[p][j] # 0}) = 1

-----------------------------------------------------------------------------
\* C6 (corner-sum identity): the totalCornerPathLength returned for a
\* bounding-box track is the sum of the four corner path lengths returned with
\* it, and so is the one stored in the dictionary calculate builds for the class.
C6_CornerSum ==
    /\ SeqReturned => result[2] = result[3] + result[4] + result[5] + result[6]
    /\ \A c \in DOMAIN metrics :
          metrics[c].TOTAL_CORNER_PATH_LENGTH[1] = "float"
              => metrics[c].TOTAL_CORNER_PATH_LENGTH[2] =
                     metrics[c].CORNER_1_PATH_LENGTH[2] + metrics[c].CORNER_2_PATH_LENGTH[2]
                       + metrics[c].CORNER_3_PATH_LENGTH[2] + metrics[c].CORNER_4_PATH_LENGTH[2]

\* a dictionary whose corner path lengths are not all the same
C6_Witness ==
    /\ SeqReturned
    /\ result[3] # result[6]
    /\ result[6] > 0
    /\ metrics[Len(metrics)].TOTAL_CORNER_PATH_LENGTH = PyFloat(result[2])
    /\ metrics[Len(metrics)].CORNER_4_PATH_LENGTH = PyFloat(result[6])

-----------------------------------------------------------------------------
\* C7 (zero movement): when all valid frames of a track have the same position
\* (the same 4 control points, or the same center for a REGION track), every
\* path length returned is 0.
C7_ZeroMovement ==
    /\ SeqReturned
       /\ (\A f, g \in DOMAIN SeqReturnedTrack.data :
              ~AllZero(SeqReturnedTrack.data[f]) /\ ~AllZero(SeqReturnedTrack.data[g])
                  => SeqReturnedTrack.data[f].points = SeqReturnedTrack.data[g].points)
          => \A k \in 1..6 : result[k] = 0
    /\ ROIReturned
       /\ (\A f, g \in DOMAIN ROIReturnedTrack.data :
              ROIReturnedTrack.data[f].center = ROIReturnedTrack.data[g].center)
          => result[1] = 0

\* the same valid frame three times, an invalid frame among them, time elapsed
C7_Witness ==
    /\ SeqReturned
    /\ LET t == SeqReturnedTrack
       IN  /\ Len(t.data) = 4
           /\ \E z \in 2..4 : AllZero(t.data[z])
           /\ ~AllZero(t.data[1]) /\ ~AllZero(t.data[2])
           /\ \A f, g \in DOMAIN t.data :
                 ~AllZero(t.data[f]) /\ ~AllZero(t.data[g])
                     => t.data[f].points = t.data[g].points
    /\ result[7] > 0

-----------------------------------------------------------------------------
\* a traversal is about to read frame `frame` of its track
InTraversal ==
    /\ pc \in {"calculateMetricsFromSequence", "calculateMetricsFromROISequence"}
    /\ frame <= Len(CurrentSequence.data)

\* frame f of the track being traversed is an invalid frame
InvalidAt(f) ==
    pc = "calculateMetricsFromSequence" /\ AllZero(CurrentSequence.data[f])

NoLess(a, b) ==
    /\ a.centerPathLength >= b.centerPathLength
    /\ a.corner1PathLength >= b.corner1PathLength
    /\ a.corner2PathLength >= b.corner2PathLength
    /\ a.corner3PathLength >= b.corner3PathLength
    /\ a.corner4PathLength >= b.corner4PathLength
    /\ a.usageTime >= b.usageTime

\* C8: while a track with non-decreasing timestamps is traversed, processing a
\* frame never lowers a path length or the usage time, and processing an
\* invalid frame, or the first valid frame after an invalid one, changes none.
C8_Monotone ==
    [][ InTraversal /\ NonDecreasing(CurrentSequence) /\ frame' = frame + 1
          => /\ NoLess(acc', acc)
             /\ (InvalidAt(frame) \/ (frame > 1 /\ InvalidAt(frame - 1))) => acc' = acc
      ]_vars

\* the first valid frame after a gap has been read, elsewhere than the frame
\* before the gap, with path length and usage time already accumulated
C8_Witness ==
    /\ SeqFrameRead
    /\ NonDecreasing(CurrentSequence)
    /\ frame = 5
    /\ ~AllZero(CurrentSequence.data[4])
    /\ AllZero(CurrentSequence.data[3])
    /\ ~AllZero(CurrentSequence.data[2])
    /\ CurrentSequence.data[2] # CurrentSequence.data[4]
    /\ acc.centerPathLength > 0
    /\ acc.usageTime > 0

-----------------------------------------------------------------------------
\* the tracks 1..k whose name contains the pattern, in enumeration order
RECURSIVE Matching(_, _)
Matching(pattern, k) ==
    IF k = 0 THEN <<>>
    ELSE Matching(pattern, k - 1) \o
            (IF \E a \in 1..(Len(synchronizedSequenceNodes[k].name) - Len(pattern) + 1) :
                   SubSeq(synchronizedSequenceNodes[k].name, a, a + Len(pattern) - 1) = pattern
             THEN <<k>> ELSE <<>>)

Classified == pc \notin {"idle", "classify"}

\* C9: once the tracks are classified, the bounding-box list holds exactly the
\* tracks whose name contains "Markups Sequence" and the region list exactly
\* those whose name contains "ROI_SEQUENCE", each in enumeration order; a track
\* with neither is in no list, and the table has one column per list entry.
C9_Classification ==
    /\ Classified =>
          /\ [k \in DOMAIN boundingBoxSequences |-> boundingBoxSequences[k][2]]
                 = Matching("Markups Sequence", numberOfNodes)
          /\ [k \in DOMAIN roiSequences |-> roiSequences[k][2]]
                 = Matching("ROI_SEQUENCE", numberOfNodes)
    /\ pc = "done" =>
          Len(table.columnLabels) = Len(boundingBoxSequences) + Len(roiSequences)

\* three tracks: one in no list between two of the bounding-box list, the
\* first of which has "_ROI" in its name
C9_Witness ==
    /\ pc = "done"
    /\ numberOfNodes = 3
    /\ [k \in DOMAIN boundingBoxSequences |-> boundingBoxSequences[k][2]] = <<1, 3>>
    /\ roiSequences = <<>>
    /\ synchronizedSequenceNodes[1].name = "LIVER_ROI Markups Sequence"
    /\ synchronizedSequenceNodes[2].name = "Needle markups sequence"
    /\ synchronizedSequenceNodes[1].name # synchronizedSequenceNodes[3].name
    /\ Len(table.columnLabels) = 2

-----------------------------------------------------------------------------
\* C10: no track is in both the bounding-box list and the region list.
C10_Partition ==
    \A b \in DOMAIN boundingBoxSequences, r \in DOMAIN roiSequences :
        boundingBoxSequences[b][2] # roiSequences[r][2]

-----------------------------------------------------------------------------
\* the part of a name before the first occurrence of a one-character separator
\* (the whole name when it holds none)
Before(name, sep) ==
    LET hits == {a \in 1..Len(name) : SubSeq(name, a, a) = sep}
    IN  IF hits = {} THEN name
        ELSE SubSeq(name, 1, (CHOOSE a \in hits : \A b \in hits : a <= b) - 1)

\* labels of the tracks whose name contains the pattern, in enumeration order
BoundingBoxLabels ==
    LET m == Matching("Markups Sequence", numberOfNodes)
    IN  [k \in DOMAIN m |-> Upper(Before(synchronizedSequenceNodes[m[k]].name, " "))]

ROILabels ==
    LET m == Matching("ROI_SEQUENCE", numberOfNodes)
    IN  [k \in DOMAIN m |-> Upper(Before(synchronizedSequenceNodes[m[k]].name, "_")) \o "_ROI"]

-----------------------------------------------------------------------------
\* the value of a metrics dictionary behind each of the seven cells of a column
CellValues(m) ==
    << m.CENTER_PATH_LENGTH, m.TOTAL_CORNER_PATH_LENGTH, m.CORNER_1_PATH_LENGTH,
       m.CORNER_2_PATH_LENGTH, m.CORNER_3_PATH_LENGTH, m.CORNER_4_PATH_LENGTH,
       m.USAGE_TIME >>

\* fixed-point resolution of the value behind row r
CellUnits(r) == IF r = 7 THEN UnitsPerSecond ELSE UnitsPerMM

\* column c of the table comes from a REGION track
FromROITrack(c) == c > Len(boundingBoxSequences)

\* C12: in the table calculate writes, the total-corner cell and the four
\* corner cells of a column hold "N/A" if and only if the column comes from a
\* REGION track, and every numeric cell (all seven of a bounding-box column,
\* center path length and usage time of a region column) is the text of the
\* value rounded to 2 decimal places, whatever the track name.
C12_Cells ==
    pc = "done" =>
        \A c \in DOMAIN table.items :
            /\ \A r \in 2..6 : table.items[c][r] = "N/A" <=> FromROITrack(c)
            /\ \A r \in 1..7 :
                  (r \in {1, 7} \/ ~FromROITrack(c))
                      => table.items[c][r] =
                             StrRound2(CellValues(metrics[c])[r], CellUnits(r))

-----------------------------------------------------------------------------
\* no track of the browser has a name with either pattern
NoTrackMatches ==
    /\ Matching("Markups Sequence", numberOfNodes) = <<>>
    /\ Matching("ROI_SEQUENCE", numberOfNodes) = <<>>

\* C13: when no track of the browser matches either naming pattern (a browser
\* without tracks included), calculate traverses no track and raises nothing,
\* goes on to write the table once the tracks are classified, and the table
\* it writes has 0 columns, exactly the 7 fixed row labels, and is visible.
C13_EmptyReport ==
    NoTrackMatches =>
        /\ pc \in {"idle", "classify", "boundingBox", "done"}
        /\ pc = "boundingBox" => BoundingBoxLoopDone /\ ROIIndex > Len(roiSequences)
        /\ pc = "done" =>
              /\ table.columnLabels = <<>>
              /\ table.items = <<>>
              /\ table.rowLabels =
                    << "Center Path Length (mm)", "Total Markup Path Length (mm)",
                       "Markup 1 Path Length (mm)", "Markup 2 Path Length (mm)",
                       "Markup 3 Path Length (mm)", "Markup 4 Path Length (mm)",
                       "Usage Time (s)" >>
              /\ Len(table.rowLabels) = 7
              /\ table.visible = TRUE

\* two tracks, one named like a bounding-box track but in lower case, and none
\* matches: the table is shown without columns
C13_Witness ==
    /\ pc = "done"
    /\ NoTrackMatches
    /\ numberOfNodes = 2
    /\ synchronizedSequenceNodes[1].name = "Needle markups sequence"
    /\ synchronizedSequenceNodes[2].name = "Image_Image"
    /\ table.visible = TRUE
    /\ table.columnLabels = <<>>

-----------------------------------------------------------------------------
\* C14 (all or nothing): no step of calculate other than the one that writes
\* the table at the end of a calculation without error changes the table
\* (content or visibility), so when the traversal of a track raises the table
\* is as it was before the call; after the raise no further track is processed
\* and no dictionary added: the only step is the one report of the error by
\* the error boundary of onCalculateButton, and after it a new click.
C14_AllOrNothing ==
    [][ /\ table' # table => pc' = "done"
        /\ pc = "raised" =>
              /\ pc' = "failed"
              /\ metrics' = metrics /\ i' = i /\ frame' = frame /\ result' = result
        /\ pc' = "failed" => pc = "raised"
        /\ pc = "failed" => pc' = "idle"
      ]_vars

\* an error has been reported while the table shows the columns of an earlier
\* calculation, with a track of the browser left unprocessed
C14_Witness ==
    /\ pc = "failed"
    /\ previous # None
    /\ table.visible = TRUE
    /\ table.columnLabels # <<>>
    /\ Len(boundingBoxSequences) = 1
    /\ Len(roiSequences) = 1
    /\ metrics = <<>>

-----------------------------------------------------------------------------
\* the three calls convertPixelsToMM(x1 + x2, y, z), convertPixelsToMM(x2, y, z)
\* and convertPixelsToMM(x1, 0, z) have returned
Converted == Len(arguments) = 3 /\ Len(positions) = 3

\* C15 (P5): for fixed z, principal point and focal length, the default
\* principal point included, convertPixelsToMM(x1 + x2, y, z) minus
\* convertPixelsToMM(x2, y, z) is convertPixelsToMM(x1, 0, z) in both components.
C15_Linear ==
    Converted => \A j \in 1..2 : positions[1][j] - positions[2][j] = positions[3][j]

\* C15 as it holds: the difference is (x1 * z / focalLength, 0), whatever the
\* principal point; it is convertPixelsToMM(x1, 0, z) when the principal
\* point is (0, 0) or z is 0, and when x1 and z are not 0 it is not as soon as
\* the x of the principal point is not 0.
C15_Affine ==
    Converted =>
        LET x1 == arguments[3][1]
            zMM == arguments[3][3]
            principlePoint == arguments[3][4]
            focalLength == arguments[3][5]
            difference == [j \in 1..2 |-> positions[1][j] - positions[2][j]]
        IN  /\ difference = <<(x1 * zMM * UnitsPerMM) \div focalLength, 0>>
            /\ (principlePoint = <<0, 0>> \/ zMM = 0) => difference = positions[3]
            /\ (principlePoint[1] # 0 /\ zMM # 0) => difference[1] # positions[3][1]

\* the three calls have returned for the default principal point, a depth and
\* an x1 that are not 0, and a y off the principal point
C15_Witness ==
    /\ Converted
    /\ arguments[3][4] = DefaultPrinciplePoint
    /\ arguments[3][3] > 0
    /\ arguments[3][1] > 0
    /\ arguments[1][2] # DefaultPrinciplePoint[2]
    /\ positions[1] # positions[2]
    /\ positions[2][2] # 0

-----------------------------------------------------------------------------
\* what one call of calculate on the tracks of the browser leaves when it is
\* the first call on a new logic object and a table just set up: the two lists,
\* and the table, which stays hidden and empty when a traversal raises

FreshBoundingBoxSequences ==
    LET m == Matching("Markups Sequence", numberOfNodes)
    IN  [k \in DOMAIN m |->
            <<Upper(Before(synchronizedSequenceNodes[m[k]].name, " ")), m[k]>>]

FreshROISequences ==
    LET m == Matching("ROI_SEQUENCE", numberOfNodes)
    IN  [k \in DOMAIN m |->
            <<Upper(Before(synchronizedSequenceNodes[m[k]].name, "_")), m[k]>>]

FreshRaises ==
    \E k \in DOMAIN FreshBoundingBoxSequences :
        calculateMetricsFromSequence(
            synchronizedSequenceNodes[FreshBoundingBoxSequences[k][2]]) = NoResult

FreshMetrics ==
    [k \in DOMAIN FreshBoundingBoxSequences |->
        BoundingBoxMetrics(FreshBoundingBoxSequences[k][1],
            calculateMetricsFromSequence(
                synchronizedSequenceNodes[FreshBoundingBoxSequences[k][2]]))]
    \o [k \in DOMAIN FreshROISequences |->
        ROIMetrics(FreshROISequences[k][1],
            calculateMetricsFromROISequence(
                synchronizedSequenceNodes[FreshROISequences[k][2]]))]

FreshTable ==
    IF FreshRaises THEN HiddenTable
    ELSE [rowLabels    |-> rowLabels,
          columnLabels |-> [c \in DOMAIN FreshMetrics |-> FreshMetrics[c].CLASS_NAME],
          items        |-> [c \in DOMAIN FreshMetrics |-> Column(FreshMetrics[c])],
          visible      |-> TRUE]

ListsAreFresh ==
    /\ boundingBoxSequences = FreshBoundingBoxSequences
    /\ roiSequences = FreshROISequences

\* C16: no state survives across calls of calculate on the same logic object
\* and table: after any sequence of calls, whether the last one returned or
\* raised, the table and the two lists are what a single call on the tracks
\* of the last call leaves.
C16_LastCallOnly ==
    pc \in {"done", "failed"} => table = FreshTable /\ ListsAreFresh

\* C16 as it holds: after any sequence of calls the two lists are those of the
\* tracks of the last call, and when the last call returned the table (row
\* labels, column labels, cells) is the table of a single call on these tracks:
\* a repeated call gives the same table, and a call with fewer tracks leaves
\* no column of an earlier call.  (When the last call raised, the table is
\* still the one of the call before it.)
C16_NoStateSurvives ==
    /\ pc \in {"done", "failed"} => ListsAreFresh
    /\ pc = "done" => table = FreshTable

\* a call on a REGION track alone has returned after a call on a browser of a
\* bounding-box track and a REGION track
C16_Witness ==
    /\ pc = "done"
    /\ previous # None
    /\ Len(Value(previous)) = 2
    /\ Value(previous)[1] = BrowserTracks[1]
    /\ Value(previous)[2] = BrowserTracks[5]
    /\ synchronizedSequenceNodes = <<BrowserTracks[5]>>
    /\ table.columnLabels = <<"TUMOR_ROI">>
    /\ Len(table.items) = 1
    /\ boundingBoxSequences = <<>>

-----------------------------------------------------------------------------
\* C17: a bounding-box frame whose point count is not 4 never passes silently:
\* calculateMetricsFromSequence returns metrics only for a track all of whose
\* frames have exactly 4 points, whatever the values of the points.
C17_WrongCountRaises ==
    SeqReturned =>
        \A f \in DOMAIN SeqReturnedTrack.data : Len(SeqReturnedTrack.data[f].points) = 4

-----------------------------------------------------------------------------
\* frame f of track t is a valid frame of 4 points
ValidBox(t, f) == Len(t.data[f].points) = 4 /\ ~AllZero(t.data[f])

\* the vector by which converted corner k moves from frame f - 1 to frame f
CornerMove(t, f, k) ==
    [j \in 1..3 |-> getCornerPositionsOfBoundingBox(t.data[f])[k][j]
                      - getCornerPositionsOfBoundingBox(t.data[f - 1])[k][j]]

\* frames f - 1 and f of t are valid and the four corners move by the same vector
UniformMove(t, f) ==
    /\ f > 1
    /\ ValidBox(t, f - 1) /\ ValidBox(t, f)
    /\ \A k \in 2..4 : CornerMove(t, f, k) = CornerMove(t, f, 1)

Norm(d) == sqrt(d[1] * d[1] + d[2] * d[2] + d[3] * d[3])

\* the center remembered for the frame just read is the mean of the four
\* converted corners remembered with it
CenterIsMean ==
    SeqFrameRead /\ valid = TRUE =>
        \A j \in 1..3 :
            Value(last.lastCenter)[j] =
                (Value(last.lastCorner1)[j] + Value(last.lastCorner2)[j]
                   + Value(last.lastCorner3)[j] + Value(last.lastCorner4)[j]) \div 4

\* the track of three frames: a valid frame, the same moved by 5 mm in x and
\* 2.0 s later, an all-zero frame
ShiftExample(t) ==
    /\ Len(t.data) = 3
    /\ UniformMove(t, 2)
    /\ CornerMove(t, 2, 1) = <<5 * UnitsPerMM, 0, 0>>
    /\ Timestamp(t, 2) - Timestamp(t, 1) = 2 * UnitsPerSecond
    /\ Len(t.data[3].points) = 4 /\ AllZero(t.data[3])

\* C18: in calculateMetricsFromSequence the center of a frame is the mean of
\* its 4 converted corners; when from one valid frame to the next all four
\* converted corners move by the same vector d, centerPathLength and each of
\* the four corner path lengths grow by |d| and totalCornerPathLength by 4 |d|;
\* the track (valid frame, the same moved by 5 mm in x at +2.0 s, all-zero
\* frame) gives centerPathLength 5, each corner 5, total 20 and usageTime 2.
C18_UniformShift ==
    /\ [](CenterIsMean
          /\ (SeqReturned /\ ShiftExample(SeqReturnedTrack)
                => result = <<5 * UnitsPerMM, 20 * UnitsPerMM, 5 * UnitsPerMM,
                              5 * UnitsPerMM, 5 * UnitsPerMM, 5 * UnitsPerMM,
                              2 * UnitsPerSecond>>))
    /\ [][ (/\ pc = "calculateMetricsFromSequence"
            /\ pc' = pc
            /\ frame' = frame + 1
            /\ UniformMove(CurrentSequence, frame))
           => LET d == Norm(CornerMove(CurrentSequence, frame, 1))
              IN  /\ acc'.centerPathLength = acc.centerPathLength + d
                  /\ acc'.corner1PathLength = acc.corner1PathLength + d
                  /\ acc'.corner2PathLength = acc.corner2PathLength + d
                  /\ acc'.corner3PathLength = acc.corner3PathLength + d
                  /\ acc'.corner4PathLength = acc.corner4PathLength + d
                  /\ totalCornerPathLength(acc') = totalCornerPathLength(acc) + 4 * d
         ]_vars

\* the traversal of the example track has returned 5 mm, 20 mm in total, 2 s
C18_Witness ==
    /\ SeqReturned
    /\ ShiftExample(SeqReturnedTrack)
    /\ SeqReturnedTrack.name = "NEEDLE Markups Sequence"
    /\ result[1] = 5 * UnitsPerMM
    /\ result[2] = 20 * UnitsPerMM
    /\ result[7] = 2 * UnitsPerSecond

-----------------------------------------------------------------------------
\* the six values calculateMetricsFromSequence remembers are all unset
AllUnset ==
    /\ last.lastCenter = None /\ last.lastTimestamp = None
    /\ last.lastCorner1 = None /\ last.lastCorner2 = None
    /\ last.lastCorner3 = None /\ last.lastCorner4 = None

\* the six values are all set
AllSet ==
    /\ last.lastCenter # None /\ last.lastTimestamp # None
    /\ last.lastCorner1 # None /\ last.lastCorner2 # None
    /\ last.lastCorner3 # None /\ last.lastCorner4 # None

\* what a traversal that has just read a valid frame remembers of it
RememberedOf(t, f) ==
    [lastCenter    |-> Some(computeCenterOfBoundingBox(t.data[f])),
     lastCorner1   |-> Some(getCornerPositionsOfBoundingBox(t.data[f])[1]),
     lastCorner2   |-> Some(getCornerPositionsOfBoundingBox(t.data[f])[2]),
     lastCorner3   |-> Some(getCornerPositionsOfBoundingBox(t.data[f])[3]),
     lastCorner4   |-> Some(getCornerPositionsOfBoundingBox(t.data[f])[4]),
     lastTimestamp |-> Some(Timestamp(t, f))]

\* C19: in calculateMetricsFromSequence, at the start of every iteration of the
\* loop (and when the loop ends) the six remembered values are all unset or
\* all set; they are all unset exactly when there is no previous frame or the
\* previous frame was invalid; when set they are the center, the corners and
\* the timestamp of the frame just before, not of an older one.
C19_GapOrTracking ==
    pc = "calculateMetricsFromSequence" =>
        /\ AllUnset \/ AllSet
        /\ AllUnset <=> (frame = 1 \/ AllZero(CurrentSequence.data[frame - 1]))
        /\ AllSet => last = RememberedOf(CurrentSequence, frame - 1)

\* the traversal remembers the third frame, which follows an invalid frame and
\* an older valid frame at another position and time
C19_Witness ==
    /\ pc = "calculateMetricsFromSequence"
    /\ frame = 4
    /\ Len(CurrentSequence.data) = 4
    /\ ValidBox(CurrentSequence, 1)
    /\ AllZero(CurrentSequence.data[2])
    /\ ValidBox(CurrentSequence, 3)
    /\ CurrentSequence.data[1] # CurrentSequence.data[3]
    /\ Timestamp(CurrentSequence, 1) # Timestamp(CurrentSequence, 3)
    /\ AllSet

====
